---- MODULE Spec2Model ----
(***************************************************************************)
(* State-machine model of the kiosk signage programs:                      *)
(*   menu.py         run_menu: scrollable gallery with one action button    *)
(*   show_png.py     folder slideshow with a vertical scroll animation      *)
(*   setup_loader.py first-run package installer                            *)
(* Each program has its own variables and its own specification; the       *)
(* variables of the other programs stay at their initial values.           *)
(***************************************************************************)
EXTENDS Integers, Sequences, FiniteSets, TLC

VARIABLES
    \* ---- menu.py: run_menu ----
    screen_size,   \* <<WIDTH, HEIGHT>> of the fullscreen display
    items,         \* gallery rows, in sorted file order: [path, height]
    scroll_y,      \* vertical scroll offset
    hover_index,   \* index (0-based) of the hover row, None before any hover
    menu_pc,       \* "loop" while the menu blocks, "returned" afterwards
    result,        \* the tagged result run_menu returned
    laid_out,      \* TRUE when the last step rendered a frame with scroll_y
    click_row      \* row under the pointer at the click that returned

VARIABLES
    \* ---- show_png.py: main and show_image_with_scroll ----
    in_main,       \* TRUE: show_image_with_scroll runs under main's loop
    files,         \* collect_image_files(folder): [kind, size] per file
    scr,           \* <<scr_w, scr_h>>
    idx,           \* main's running index
    show_pc,       \* position in main / show_image_with_scroll
    path,          \* position in files of the current file (1-based), 0: none
    img,           \* pil_img.size = <<iw, ih>>
    seconds,       \* seconds parameter, a fraction <<num, den>>
    fps,           \* fps parameter
    source,        \* source.size = <<src_w, src_h>>
    zoomed,        \* TRUE when source was made with min_zoom = 1.05
    max_scroll,
    total_frames,
    frame,         \* frames rendered so far for the current image
    offset_y,      \* offset_y of the last rendered frame
    first_offset,  \* offset_y of frame 0 of the current image
    events,        \* pygame's pending event queue
    quit_seen,     \* TRUE once an event drain met a quit/ESC/q event
    pygame_up,     \* display initialised and pygame.quit() not yet called
    polled,        \* the current outer iteration drained the event queue
    step,          \* what the last step of the program did
    show_exit      \* exit status of the process, -1 while running

VARIABLES
    \* ---- setup_loader.py ----
    euid_root,     \* os.geteuid() == 0
    has_pygame,    \* the pygame import at module load succeeded
    upd,           \* what running "apt update" does
    ins,           \* what running "apt install" does
    setup_pc,      \* "start", "waiting" (error screen), "exited"
    setup_screen,  \* text on the fullscreen UI
    setup_display, \* pygame display initialised and not yet quit
    printed,       \* the line main printed
    setup_exit     \* exit status of the process, -1 while running

menu_vars == <<screen_size, items, scroll_y, hover_index, menu_pc, result,
               laid_out, click_row>>

show_vars == <<in_main, files, scr, idx, show_pc, path, img, seconds, fps,
               source, zoomed, max_scroll, total_frames, frame, offset_y,
               first_offset, events, quit_seen, pygame_up, polled, step,
               show_exit>>

setup_vars == <<euid_root, has_pygame, upd, ins, setup_pc, setup_screen,
                setup_display, printed, setup_exit>>

vars == <<menu_vars, show_vars, setup_vars>>

(***************************************************************************)
(* Bounds of the model                                                     *)
(***************************************************************************)
MaxMenuFiles == 2      \* image files in the cache directory
MaxEvents == 1         \* input events drained in one menu frame
MaxDim == 3            \* image and screen sides are 20 * (1..MaxDim) pixels
MaxFiles == 2          \* files collected from the slideshow folder
MaxIdx == 4            \* outer-loop iterations followed
MaxQueue == 1          \* events pending between two drains
MaxOut == 2            \* characters of output captured from an apt command

(***************************************************************************)
(* menu.py                                                                 *)
(***************************************************************************)
IMAGE_MAX_WIDTH == 1100
IMAGE_MAX_HEIGHT == 650
TOPBAR_HEIGHT == 70
BUTTON_WIDTH == 220
BUTTON_HEIGHT == 45
ITEM_PADDING == 25
TEXT_HEIGHT == 30
SCROLL_SPEED == 50

None == -1
NoPath == 0
NoResult == [tag |-> "NONE", path |-> NoPath]

Max2(a, b) == IF a >= b THEN a ELSE b
Min2(a, b) == IF a <= b THEN a ELSE b

\* Source image sizes <<w, h>> found in the cache directory, and display sizes.
MenuImageSizes == { <<1100, 650>>, <<2200, 200>>, <<1100, 300>> }
MenuScreens == { <<1280, 720>>, <<1920, 1080>> }
\* Pointer positions sampled by pygame.mouse.get_pos().
MouseXs == { 10, 100, 600 }
MouseYs == { 30, 65, 95, 400, 850 }
MenuEvents == { "QUIT", "ESCAPE", "CLICK", "WHEEL_UP", "WHEEL_DOWN", "OTHER" }

RECURSIVE SeqsUpTo(_, _)
SeqsUpTo(S, n) ==
    IF n = 0 THEN { <<>> }
    ELSE LET shorter == SeqsUpTo(S, n - 1)
         IN  shorter \cup { Append(s, x) : s \in shorter, x \in S }

\* scale_image: height of the picture scaled by min(max_w / w, max_h / h),
\* truncated by int().
ScaledImageHeight(w, h) ==
    IF IMAGE_MAX_WIDTH * h <= IMAGE_MAX_HEIGHT * w
    THEN (h * IMAGE_MAX_WIDTH) \div w
    ELSE (h * IMAGE_MAX_HEIGHT) \div h

ItemHeight(w, h) == ScaledImageHeight(w, h) + TEXT_HEIGHT + ITEM_PADDING * 2

\* The rows built from the image files of the directory: `present` is the set
\* of image files by their rank in sorted name order, size[r] the picture's size.
RECURSIVE LoadItems(_, _, _)
LoadItems(present, size, r) ==
    IF r > MaxMenuFiles THEN <<>>
    ELSE (IF r \in present
          THEN << [path |-> r, height |-> ItemHeight(size[r][1], size[r][2])] >>
          ELSE <<>>) \o LoadItems(present, size, r + 1)

ButtonTop == TOPBAR_HEIGHT \div 2 - BUTTON_HEIGHT \div 2

\* button_rect.collidepoint(mx, my)
ButtonHit(mx, my) ==
    /\ 30 <= mx /\ mx < 30 + BUTTON_WIDTH
    /\ ButtonTop <= my /\ my < ButtonTop + BUTTON_HEIGHT

RECURSIVE TotalHeight(_)
TotalHeight(its) ==
    IF its = <<>> THEN 0 ELSE Head(its).height + TotalHeight(Tail(its))

ViewportHeight == screen_size[2] - TOPBAR_HEIGHT

ClampScrollNoFloor(s, total, viewport) == Min2(0, s)

\* Clamp scrolling: max_scroll = max(0, total - viewport); clamp to [-max_scroll, 0]
ClampScroll(s, total, viewport) ==
    LET menu_max_scroll == Max2(0, total - viewport)
    IN  Max2(-menu_max_scroll, Min2(0, s))

\* Top edge of row i (1-based position in items) when laid out with offset s.
RECURSIVE RowTop(_, _)
RowTop(i, s) ==
    IF i = 1 THEN s + TOPBAR_HEIGHT + 20
    ELSE RowTop(i - 1, s) + items[i - 1].height + 25

\* pygame.Rect(40, y, WIDTH - 80, height).collidepoint(mx, my)
RowHit(i, s, mx, my) ==
    /\ 40 <= mx /\ mx < 40 + (screen_size[1] - 80)
    /\ RowTop(i, s) <= my /\ my < RowTop(i, s) + items[i].height

\* The row (0-based) under the pointer in the layout with offset s, or None.
RowUnder(s, mx, my) ==
    LET hits == { i \in 1..Len(items) : RowHit(i, s, mx, my) }
    IN  IF hits = {} THEN None ELSE (CHOOSE i \in hits : \A j \in hits : j <= i) - 1

\* The render pass over the rows: hover_index is assigned for every row the
\* pointer is in, and is left as it was when the pointer is in no row.
HoverLayout(hov, s, mx, my) ==
    IF RowUnder(s, mx, my) = None THEN hov ELSE RowUnder(s, mx, my)

\* The event loop of one frame, in queue order: the scroll offset after the
\* events, and the result returned from inside the loop, if any.
RECURSIVE HandleEvents(_, _, _, _, _)
HandleEvents(evs, s, hov, mx, my) ==
    IF evs = <<>> THEN [scroll |-> s, ret |-> NoResult]
    ELSE
      LET e == Head(evs) IN
      CASE e \in { "QUIT", "ESCAPE" } ->
             [scroll |-> s, ret |-> [tag |-> "EXIT", path |-> NoPath]]
        [] e = "CLICK" ->
             IF ButtonHit(mx, my)
             THEN [scroll |-> s, ret |-> [tag |-> "TIMED_POSTER", path |-> NoPath]]
             ELSE IF hov # None
             THEN [scroll |-> s,
                   ret |-> [tag |-> "IMAGE_SELECTED", path |-> items[hov + 1].path]]
             ELSE HandleEvents(Tail(evs), s, hov, mx, my)
        [] e = "WHEEL_UP" ->
             HandleEvents(Tail(evs),
                          IF my > TOPBAR_HEIGHT THEN s + SCROLL_SPEED ELSE s,
                          hov, mx, my)
        [] e = "WHEEL_DOWN" ->
             HandleEvents(Tail(evs),
                          IF my > TOPBAR_HEIGHT THEN s - SCROLL_SPEED ELSE s,
                          hov, mx, my)
        [] OTHER -> HandleEvents(Tail(evs), s, hov, mx, my)

MenuIdle ==
    /\ screen_size = <<0, 0>>
    /\ items = <<>>
    /\ scroll_y = 0
    /\ hover_index = None
    /\ menu_pc = "idle"
    /\ result = NoResult
    /\ laid_out = FALSE
    /\ click_row = None

MenuInit ==
    /\ screen_size \in MenuScreens
    /\ \E present \in SUBSET (1..MaxMenuFiles) :
       \E size \in [1..MaxMenuFiles -> MenuImageSizes] :
          items = LoadItems(present, size, 1)
    /\ scroll_y = 0
    /\ hover_index = None
    /\ menu_pc = "loop"
    /\ result = NoResult
    /\ laid_out = FALSE
    /\ click_row = None

\* One iteration of the main loop in which an event returns from run_menu.
MenuReturn ==
    /\ menu_pc = "loop"
    /\ \E mx \in MouseXs, my \in MouseYs, evs \in SeqsUpTo(MenuEvents, MaxEvents) :
         LET h == HandleEvents(evs, scroll_y, hover_index, mx, my) IN
         /\ h.ret # NoResult
         /\ result' = h.ret
         /\ scroll_y' = h.scroll
         /\ click_row' = RowUnder(scroll_y, mx, my)
         /\ menu_pc' = "returned"
         /\ laid_out' = FALSE
    /\ UNCHANGED <<screen_size, items, hover_index>>
    /\ UNCHANGED <<show_vars, setup_vars>>

\* One iteration of the main loop that runs to pygame.display.flip().
MenuFrame ==
    /\ menu_pc = "loop"
    /\ \E mx \in MouseXs, my \in MouseYs, evs \in SeqsUpTo(MenuEvents, MaxEvents) :
         LET h == HandleEvents(evs, scroll_y, hover_index, mx, my)
             s == ClampScroll(h.scroll, TotalHeight(items), ViewportHeight)
         IN
         /\ h.ret = NoResult
         /\ scroll_y' = s
         /\ hover_index' = HoverLayout(hover_index, s, mx, my)
         /\ laid_out' = TRUE
    /\ UNCHANGED <<screen_size, items, menu_pc, result, click_row>>
    /\ UNCHANGED <<show_vars, setup_vars>>

MenuNext == MenuFrame \/ MenuReturn

(***************************************************************************)
(* show_png.py                                                             *)
(***************************************************************************)
\* Image and screen sides.
Dims == { 20 * k : k \in 1..MaxDim }
Sizes == Dims \X Dims
\* seconds as exact fractions <<num, den>> (all exactly representable floats).
SecondsSet == { <<-1, 1>>, <<0, 1>>, <<1, 16>>, <<1, 2>>, <<2, 1>> }
FpsSet == { 1, 30 }
\* seconds-per-image given on the command line; 5.0 when absent or not a float.
ArgvSeconds == { [kind |-> "absent", val |-> <<0, 1>>],
                 [kind |-> "invalid", val |-> <<0, 1>>],
                 [kind |-> "float", val |-> <<1, 16>>],
                 [kind |-> "float", val |-> <<1, 8>>] }
\* A file opens and displays, fails to open, fails in the preparation of its
\* display, or fails at some frame of its animation.
FileKinds == { "ok", "bad_open", "bad_show", "bad_frame" }
ShowEvents == { "QUIT", "ESCAPE", "Q", "OTHER" }

NoSize == <<0, 0>>

\* The larger of two fractions with positive denominators.
FracMax(a, b) == IF a[1] * b[2] >= b[1] * a[2] THEN a ELSE b

\* int(): truncation toward zero of num / den, den > 0.
IntTrunc(num, den) == IF num >= 0 THEN num \div den ELSE -((-num) \div den)

\* round(): nearest integer of num / den, den > 0, ties to the even one.
Round(num, den) ==
    LET lo == num \div den
        twice == 2 * (num - lo * den)
    IN  IF twice < den THEN lo
        ELSE IF twice > den THEN lo + 1
        ELSE IF lo % 2 = 0 THEN lo ELSE lo + 1

\* scale = max(target_w / iw, target_h / ih), then max(scale, min_zoom)
CoverScale(size, target, min_zoom) ==
    FracMax(FracMax(<<target[1], size[1]>>, <<target[2], size[2]>>), min_zoom)

\* (nw, nh) = max(1, int(iw * scale)), max(1, int(ih * scale))
Resized(size, target, min_zoom) ==
    LET sc == CoverScale(size, target, min_zoom)
    IN  << Max2(1, IntTrunc(size[1] * sc[1], sc[2])),
           Max2(1, IntTrunc(size[2] * sc[1], sc[2])) >>

ScaleLetterboxNoCrop(size, target, min_zoom) ==
    LET r == Resized(size, target, min_zoom)
    IN  << Max2(target[1], r[1]), Max2(target[2], r[2]) >>

\* scale_letterbox_allow_zoom: the size of the image it returns. The resized
\* image is pasted on a canvas at least as large as the target and the canvas
\* is cropped to the box (left, top, left + target_w, top + target_h).
ScaleLetterbox(size, target, min_zoom) ==
    LET r == Resized(size, target, min_zoom)
        canvas == << Max2(target[1], r[1]), Max2(target[2], r[2]) >>
        left == (canvas[1] - target[1]) \div 2
        top == (canvas[2] - target[2]) \div 2
        box == << left, top, left + target[1], top + target[2] >>
    IN  << box[3] - box[1], box[4] - box[2] >>

ZoomNone == <<1, 1>>
ZoomSmall == <<21, 20>>

\* temp.size[1] == scr_h and temp.size[0] == scr_w
NeedsZoom(size, target) == ScaleLetterbox(size, target, ZoomNone) = target

\* source: temp, or the image scaled again with min_zoom = 1.05
SourceSize(size, target) ==
    IF NeedsZoom(size, target)
    THEN ScaleLetterbox(size, target, ZoomSmall)
    ELSE ScaleLetterbox(size, target, ZoomNone)

MaxScrollWholeHeight(src_h, scr_h) == Max2(0, src_h)

\* max_scroll = max(0, src_h - scr_h)
MaxScroll(src_h, scr_h) == Max2(0, src_h - scr_h)

TotalFramesRounded(secs, f) == Max2(1, Round(secs[1] * f, secs[2]))

\* total_frames = max(1, int(seconds * fps))
TotalFrames(secs, f) == Max2(1, IntTrunc(secs[1] * f, secs[2]))

\* offset_y = int(ease_in_out(t) * max_scroll), t = frame / (total_frames - 1),
\* or t = 1.0 for a single frame. ease_in_out(0) = 0.0 and ease_in_out(1) = 1.0
\* exactly; for 0 < t < 1 the cosine is not rational and the offset is any
\* value of 0..max_scroll.
FrameOffsets(fr, total, ms) ==
    IF total = 1 THEN { ms }
    ELSE IF fr = 0 THEN { 0 }
    ELSE IF fr = total - 1 THEN { ms }
    ELSE 0..ms

\* The event drain of a frame raises KeyboardInterrupt on QUIT, ESC or q.
IsQuit(e) == e \in { "QUIT", "ESCAPE", "Q" }
DrainRaises(q) == \E i \in 1..Len(q) : IsQuit(q[i])

\* seconds = 5.0 unless argv[2] parses as a float
ParseSeconds(arg) == IF arg.kind = "float" THEN arg.val ELSE <<5, 1>>

AfterOpenFailureStuck(i) == i

\* except Exception: print("Failed to open", ...); idx += 1; continue
AfterOpenFailure(i) == i + 1

MainAfterShowAbsorbing(outcome, i) ==
    [pc |-> "loop", idx |-> i + 1, up |-> TRUE, exit |-> -1]

\* What main does when show_image_with_scroll returns or raises: the inner
\* handlers re-raise KeyboardInterrupt and absorb any other Exception; the
\* outer handler passes on KeyboardInterrupt and the finally block runs
\* pygame.quit().
MainAfterShow(outcome, i) ==
    IF outcome = "KeyboardInterrupt"
    THEN [pc |-> "exited", idx |-> i, up |-> FALSE, exit |-> 0]
    ELSE [pc |-> "loop", idx |-> i + 1, up |-> TRUE, exit |-> -1]

\* The same for a direct call of show_image_with_scroll.
CallAfterShow(outcome, i) ==
    [pc |-> IF outcome = "return" THEN "show_done" ELSE "show_raised",
     idx |-> i, up |-> TRUE, exit |-> -1]

AfterShow(outcome, i) ==
    IF in_main THEN MainAfterShow(outcome, i) ELSE CallAfterShow(outcome, i)

ShowLocalsIdle ==
    /\ source = NoSize
    /\ zoomed = FALSE
    /\ max_scroll = 0
    /\ total_frames = 0
    /\ frame = 0
    /\ offset_y = 0
    /\ first_offset = 0
    /\ events = <<>>
    /\ quit_seen = FALSE
    /\ polled = FALSE
    /\ show_exit = -1

ShowIdle ==
    /\ in_main = FALSE
    /\ files = <<>>
    /\ scr = NoSize
    /\ idx = 0
    /\ show_pc = "idle"
    /\ path = 0
    /\ img = NoSize
    /\ seconds = <<0, 1>>
    /\ fps = 0
    /\ pygame_up = FALSE
    /\ step = "none"
    /\ ShowLocalsIdle

\* A call show_image_with_scroll(screen, pil_img, scr_w, scr_h, seconds, fps).
ScrollInit ==
    /\ in_main = FALSE
    /\ files = <<>>
    /\ scr \in Sizes
    /\ idx = 0
    /\ show_pc = "prepare"
    /\ path = 0
    /\ img \in Sizes
    /\ seconds \in SecondsSet
    /\ fps \in FpsSet
    /\ pygame_up = TRUE
    /\ step = "none"
    /\ ShowLocalsIdle

\* main, after the command line is read and the folder was found.
MainInit ==
    /\ in_main = TRUE
    /\ files \in SeqsUpTo([kind : FileKinds, size : { <<20, 60>> }], MaxFiles)
    /\ scr = <<40, 20>>
    /\ idx = 0
    /\ show_pc = "start"
    /\ path = 0
    /\ img = NoSize
    /\ seconds \in { ParseSeconds(a) : a \in ArgvSeconds }
    /\ fps = 0
    /\ pygame_up = FALSE
    /\ step = "none"
    /\ ShowLocalsIdle

\* if not files: sys.exit(1); else pygame.init() ... idx = 0
MainStart ==
    /\ show_pc = "start"
    /\ IF files = <<>>
       THEN /\ show_pc' = "exited"
            /\ show_exit' = 1
            /\ UNCHANGED pygame_up
       ELSE /\ show_pc' = "loop"
            /\ pygame_up' = TRUE
            /\ UNCHANGED show_exit
    /\ idx' = 0
    /\ step' = "start"
    /\ UNCHANGED <<in_main, files, scr, path, img, seconds, fps, source, zoomed,
                   max_scroll, total_frames, frame, offset_y, first_offset,
                   events, quit_seen, polled>>
    /\ UNCHANGED <<menu_vars, setup_vars>>

\* Head of the outer loop: path = files[idx % len(files)]; Image.open(path).
MainOpen ==
    /\ show_pc = "loop"
    /\ idx < MaxIdx
    /\ LET p == (idx % Len(files)) + 1 IN
       /\ path' = p
       /\ polled' = FALSE
       /\ IF files[p].kind = "bad_open"
          THEN /\ idx' = AfterOpenFailure(idx)
               /\ step' = "open_failed"
               /\ UNCHANGED <<show_pc, img, fps>>
          ELSE /\ img' = files[p].size
               /\ fps' = 30
               /\ show_pc' = "prepare"
               /\ step' = "opened"
               /\ UNCHANGED idx
    /\ UNCHANGED <<in_main, files, scr, seconds, source, zoomed, max_scroll,
                   total_frames, frame, offset_y, first_offset, events,
                   quit_seen, pygame_up, show_exit>>
    /\ UNCHANGED <<menu_vars, setup_vars>>

\* show_image_with_scroll up to the animation loop.
ShowPrepare ==
    /\ show_pc = "prepare"
    /\ ~(in_main /\ files[path].kind = "bad_show")
    /\ source' = SourceSize(img, scr)
    /\ zoomed' = NeedsZoom(img, scr)
    /\ max_scroll' = MaxScroll(SourceSize(img, scr)[2], scr[2])
    /\ total_frames' = TotalFrames(seconds, fps)
    /\ frame' = 0
    /\ show_pc' = "frame"
    /\ step' = "prepared"
    /\ UNCHANGED <<in_main, files, scr, idx, path, img, seconds, fps, offset_y,
                   first_offset, events, quit_seen, pygame_up, polled, show_exit>>
    /\ UNCHANGED <<menu_vars, setup_vars>>

\* show_image_with_scroll raises an error other than KeyboardInterrupt, before
\* its first frame or when it renders a later one.
ShowFails ==
    /\ in_main
    /\ \/ show_pc = "prepare" /\ files[path].kind = "bad_show"
       \/ show_pc = "frame" /\ files[path].kind = "bad_frame"
    /\ LET a == AfterShow("Exception", idx) IN
       /\ show_pc' = a.pc
       /\ idx' = a.idx
       /\ pygame_up' = a.up
       /\ show_exit' = a.exit
    /\ step' = "show_failed"
    /\ UNCHANGED <<in_main, files, scr, path, img, seconds, fps, source, zoomed,
                   max_scroll, total_frames, frame, offset_y, first_offset,
                   events, quit_seen, polled>>
    /\ UNCHANGED <<menu_vars, setup_vars>>

\* One pass of the animation loop: blit at offset_y, flip, drain the events,
\* tick; after the last frame the function returns.
ShowFrame ==
    /\ show_pc = "frame"
    /\ \E o \in FrameOffsets(frame, total_frames, max_scroll) :
         /\ offset_y' = o
         /\ first_offset' = IF frame = 0 THEN o ELSE first_offset
    /\ frame' = frame + 1
    /\ events' = <<>>
    /\ polled' = TRUE
    /\ quit_seen' = DrainRaises(events)
    /\ LET outcome == IF DrainRaises(events) THEN "KeyboardInterrupt"
                      ELSE IF frame + 1 = total_frames THEN "return"
                      ELSE "next"
           a == AfterShow(outcome, idx)
       IN  IF outcome = "next"
           THEN UNCHANGED <<show_pc, idx, pygame_up, show_exit>>
           ELSE /\ show_pc' = a.pc
                /\ idx' = a.idx
                /\ pygame_up' = a.up
                /\ show_exit' = a.exit
    /\ step' = "frame"
    /\ UNCHANGED <<in_main, files, scr, path, img, seconds, fps, source, zoomed,
                   max_scroll, total_frames>>
    /\ UNCHANGED <<menu_vars, setup_vars>>

\* The user closes the window or presses a key.
PostEvent ==
    /\ show_pc \in { "loop", "prepare", "frame" }
    /\ Len(events) < MaxQueue
    /\ \E e \in ShowEvents : events' = Append(events, e)
    /\ step' = "post"
    /\ UNCHANGED <<in_main, files, scr, idx, show_pc, path, img, seconds, fps,
                   source, zoomed, max_scroll, total_frames, frame, offset_y,
                   first_offset, quit_seen, pygame_up, polled, show_exit>>
    /\ UNCHANGED <<menu_vars, setup_vars>>

ScrollNext == ShowPrepare \/ ShowFrame \/ PostEvent

MainNext == MainStart \/ MainOpen \/ ShowPrepare \/ ShowFails \/ ShowFrame
            \/ PostEvent


(***************************************************************************)
(* setup_loader.py                                                         *)
(***************************************************************************)
\* Captured output is text over an ordinary character and the newline.
OutChars == { "x", "\n" }
ReturnCodes == { 0, 1, 100 }
\* What subprocess.run does for one command: it runs to a return code with
\* captured output, or raises (the command cannot be started).
CmdOutcomes ==
    [raised : { FALSE }, rc : ReturnCodes, out : SeqsUpTo(OutChars, MaxOut)]
    \cup [raised : { TRUE }, rc : { 0 }, out : { <<"x">> }]

\* run_cmd: (returncode, stdout), or (1, str(e)) when subprocess.run raises.
RunCmd(o) == IF o.raised THEN [rc |-> 1, out |-> o.out]
             ELSE [rc |-> o.rc, out |-> o.out]

\* str.splitlines(): the lines of the text, without a final empty line.
RECURSIVE SplitFrom(_, _)
SplitFrom(text, cur) ==
    IF text = <<>> THEN (IF cur = <<>> THEN <<>> ELSE << cur >>)
    ELSE IF Head(text) = "\n" THEN << cur >> \o SplitFrom(Tail(text), <<>>)
    ELSE SplitFrom(Tail(text), Append(cur, Head(text)))

SplitLines(text) == SplitFrom(text, <<>>)

\* f"<what> failed: {out.splitlines()[-1][:200]}": IndexError when the output
\* has no line.
FailureMessage(what, out) ==
    LET lines == SplitLines(out) IN
    IF lines = <<>> THEN [kind |-> "IndexError", ok |-> FALSE, msg |-> <<>>]
    ELSE LET last == lines[Len(lines)] IN
         [kind |-> "value", ok |-> FALSE,
          msg |-> << what, SubSeq(last, 1, Min2(200, Len(last))) >>]

\* apt_install: update, then install, under sudo when not root; the two
\* branches differ in the command line only.
AptInstall(root, u, i) ==
    IF ~root
    THEN IF RunCmd(u).rc # 0
         THEN FailureMessage("apt update failed: ", RunCmd(u).out)
         ELSE IF RunCmd(i).rc # 0
         THEN FailureMessage("apt install failed: ", RunCmd(i).out)
         ELSE [kind |-> "value", ok |-> TRUE, msg |-> << "installed" >>]
    ELSE IF RunCmd(u).rc # 0
         THEN FailureMessage("apt update failed: ", RunCmd(u).out)
         ELSE IF RunCmd(i).rc # 0
         THEN FailureMessage("apt install failed: ", RunCmd(i).out)
         ELSE [kind |-> "value", ok |-> TRUE, msg |-> << "installed" >>]

SetupIdle ==
    /\ euid_root = FALSE
    /\ has_pygame = FALSE
    /\ upd = [raised |-> FALSE, rc |-> 0, out |-> <<>>]
    /\ ins = [raised |-> FALSE, rc |-> 0, out |-> <<>>]
    /\ setup_pc = "idle"
    /\ setup_screen = "none"
    /\ setup_display = FALSE
    /\ printed = "none"
    /\ setup_exit = -1

SetupInit ==
    /\ euid_root \in BOOLEAN
    /\ has_pygame \in BOOLEAN
    /\ upd \in CmdOutcomes
    /\ ins \in CmdOutcomes
    /\ setup_pc = "start"
    /\ setup_screen = "none"
    /\ setup_display = FALSE
    /\ printed = "none"
    /\ setup_exit = -1

\* sys.exit(main()) up to the end of the process or to the error screen's
\* wait for a key: run_ui_install with the UI when pygame is there, the
\* headless apt_install otherwise; an exception nobody catches ends the
\* process with a traceback and status 1.
SetupRun ==
    /\ setup_pc = "start"
    /\ LET r == AptInstall(euid_root, upd, ins) IN
       IF r.kind = "IndexError"
       THEN /\ setup_pc' = "exited"
            /\ setup_exit' = 1
            /\ setup_screen' = IF has_pygame THEN "preparing" ELSE "none"
            /\ setup_display' = has_pygame
            /\ UNCHANGED printed
       ELSE IF r.ok
       THEN /\ setup_pc' = "exited"
            /\ setup_exit' = 0
            /\ setup_screen' = IF has_pygame THEN "complete" ELSE "none"
            /\ setup_display' = FALSE
            /\ printed' = "Setup succeeded"
       ELSE IF has_pygame
       THEN /\ setup_pc' = "waiting"
            /\ setup_screen' = "error"
            /\ setup_display' = TRUE
            /\ UNCHANGED <<printed, setup_exit>>
       ELSE /\ setup_pc' = "exited"
            /\ setup_exit' = 2
            /\ printed' = "Setup failed"
            /\ UNCHANGED <<setup_screen, setup_display>>
    /\ UNCHANGED <<euid_root, has_pygame, upd, ins>>
    /\ UNCHANGED <<menu_vars, show_vars>>

\* A KEYDOWN or QUIT event ends the wait on the error screen: pygame.quit(),
\* run_ui_install returns (False, msg), main prints and returns 2.
SetupKey ==
    /\ setup_pc = "waiting"
    /\ setup_pc' = "exited"
    /\ setup_display' = FALSE
    /\ printed' = "Setup failed"
    /\ setup_exit' = 2
    /\ UNCHANGED <<euid_root, has_pygame, upd, ins, setup_screen>>
    /\ UNCHANGED <<menu_vars, show_vars>>

SetupNext == SetupRun \/ SetupKey

(***************************************************************************)
(* Specifications                                                          *)
(***************************************************************************)
InitMenu == MenuInit /\ ShowIdle /\ SetupIdle

InitScroll == ScrollInit /\ MenuIdle /\ SetupIdle

InitMain == MainInit /\ MenuIdle /\ SetupIdle

InitSetup == SetupInit /\ MenuIdle /\ ShowIdle

SpecMenu == InitMenu /\ [][MenuNext]_vars

SpecScroll == InitScroll /\ [][ScrollNext]_vars

SpecMain == InitMain /\ [][MainNext]_vars

SpecSetup == InitSetup /\ [][SetupNext]_vars

(***************************************************************************)
(* Properties                                                              *)
(***************************************************************************)

\* C1, as stated: every frame run_menu renders is laid out with a scroll
\* offset that is at most 0 and at least -(total_content_height -
\* viewport_height), whatever the gallery holds.
C1_ScrollWithinContent ==
    laid_out => /\ scroll_y <= 0
                /\ scroll_y >= -(TotalHeight(items) - ViewportHeight)

\* C1, amended: every frame run_menu renders is laid out with a scroll offset
\* that is at most 0 and at least -max(0, total_content_height -
\* viewport_height).
C1_ScrollClamped ==
    laid_out => /\ scroll_y <= 0
                /\ scroll_y >= -Max2(0, TotalHeight(items) - ViewportHeight)

\* A frame laid out at the lower end of the range, scrolled away from 0.
C1_Witness ==
    /\ laid_out
    /\ scroll_y < 0
    /\ scroll_y = -(TotalHeight(items) - ViewportHeight)

\* C2: run_menu returns (IMAGE_SELECTED, path) only for the row the pointer is
\* over at the click, with that row's path; a click over no row (and not on
\* the button) returns nothing.
C2_ClickSelectsRowUnderPointer ==
    (menu_pc = "returned" /\ result.tag = "IMAGE_SELECTED")
        => /\ click_row # None
           /\ result.path = items[click_row + 1].path

\* C3: the pannable source of show_image_with_scroll is exactly scr_w wide and
\* at least scr_h high, and max_scroll = source height - scr_h >= 0.
C3_SourceCoversScreen ==
    show_pc \in { "frame", "show_done", "show_raised" }
        => /\ source[1] = scr[1]
           /\ source[2] >= scr[2]
           /\ max_scroll = source[2] - scr[2]
           /\ max_scroll >= 0

\* The source of an image whose cover-scaled height exceeds the screen's.
C3_Witness ==
    /\ show_pc = "frame"
    /\ Resized(img, scr, ZoomNone)[2] > scr[2]
    /\ img[1] # scr[1]

C5_FramesRounded ==
    show_pc = "show_done" => frame = Round(seconds[1] * fps, seconds[2])

\* C5, amended: without a quit signal show_image_with_scroll renders
\* max(1, int(seconds x fps)) frames: the product truncated, and at least one.
C5_FramesTruncated ==
    show_pc = "show_done"
        => frame = Max2(1, IntTrunc(seconds[1] * fps, seconds[2]))

\* seconds = 1/16 at 30 fps (1.875 frames) has run to its end.
C5_Witness ==
    show_pc = "show_done" /\ seconds = <<1, 16>> /\ fps = 30 /\ frame = 1

\* C6: the installer's process ends with status 0 when the installation
\* succeeded and with status 2, after printing the failure, when it failed.
C6_ExitZeroOrTwo ==
    setup_pc = "exited"
        => /\ setup_exit \in { 0, 2 }
           /\ setup_exit = 0 <=> (RunCmd(upd).rc = 0 /\ RunCmd(ins).rc = 0)
           /\ setup_exit = 2 => printed = "Setup failed"

\* C7: a file that fails to open or to display is skipped: the index advances
\* by exactly one and the loop goes on; the file handled is always
\* files[idx % len(files)] of a non-empty list.
C7_FailureSkipsToNext ==
    /\ [][step' \in { "open_failed", "show_failed" }
            => /\ idx' = idx + 1
               /\ show_pc' = "loop"
               /\ pygame_up'
               /\ show_exit' = -1]_vars
    /\ [](show_pc \in { "prepare", "frame" }
            => /\ Len(files) > 0
               /\ path = (idx % Len(files)) + 1)

\* The last file of a list of several failed to display: the next is the first.
C7_Witness ==
    /\ step = "show_failed"
    /\ Len(files) > 1
    /\ path = Len(files)
    /\ idx % Len(files) = 0

\* C8: every iteration of the outer image-advance loop checks the quit
\* condition (drains the event queue) at least once.
C8_EveryIterationPolls == [][idx' = idx + 1 => polled']_vars

\* C9: the pannable source keeps the full scaled height int(ih x scale), the
\* 1.05 zoom is used only when the first resize equals the screen in both
\* dimensions, and it then leaves max_scroll > 0.
C9_SourceKeepsScaledHeight ==
    show_pc = "frame"
        => /\ source[2]
                = Resized(img, scr, IF zoomed THEN ZoomSmall ELSE ZoomNone)[2]
           /\ zoomed => Resized(img, scr, ZoomNone) = scr
           /\ zoomed => max_scroll > 0

\* C10: once a frame's event drain meets a quit event, no further frame of
\* this or a later image is rendered, the per-item handlers do not absorb the
\* abort, and pygame.quit() has run when main returns.
C10_QuitAbortsAtOnce ==
    /\ [](quit_seen => /\ show_pc = "exited"
                       /\ ~pygame_up
                       /\ show_exit = 0)
    /\ [][quit_seen => /\ frame' = frame
                       /\ path' = path]_vars

\* A quit event met while frames of the current image were still to come.
C10_Witness == quit_seen /\ frame < total_frames /\ show_pc = "exited"

====
